---- MODULE Spec2Model ----
(***************************************************************************)
(* The reservation / transaction workflow of the TRADEco backend:          *)
(* routes/transactions.py driving models/transaction.py (the ledger) and   *)
(* models/product.py (the registry) over a MongoDB store.                  *)
(*                                                                         *)
(* Every request handler runs in its own thread.  One step of the model is *)
(* one operation on the store (find_one, insert_one, update_one) together  *)
(* with the local computation of the handler that follows it, up to the    *)
(* next operation on the store or the response.  A second find_one of a    *)
(* handler that only re-reads fields no operation ever changes (buyer_id,  *)
(* seller_id, the existence of the transaction) is folded into the first.  *)
(* updated_at is not modelled: no operation reads it.                      *)
(***************************************************************************)
EXTENDS Integers, Sequences, FiniteSets, TLC

\* ------------------------------------------------------------- bounds
\* Requests that pass the checks of their handler, in one behaviour.
MaxOps == 3
\* The same, in the behaviours that record the rejected requests too.
MaxObsOps == 2
\* The same, in the behaviours of a single handler thread.
MaxSeqOps == 4
\* The same, in the behaviours of the workflow chain alone.
MaxPathOps == 4
\* The same, in the behaviours with edits of the listing.
MaxEditOps == 2
\* The same, in the behaviours that follow a race of two reservations.
MaxOrphanOps == 2
\* The same, in the behaviours of a pair of requests.
MaxPairOps == 2
\* The same, in the behaviours of the registry: cancellations only.
MaxRegistryOps == 2
\* Transactions created in one behaviour.
MaxTx == 2
\* Size of the space of transaction codes (36^6 in the source).
NumCodes == 2

\* ------------------------------------------------------------- data
Users == {"u1", "u2", "u3"}
Products == {"p1"}
\* A well-formed product id that names no stored product.
NoProduct == "p0"
\* Concurrent request handlers (threads of the server).
Reqs == {1, 2}
Codes == 1 .. NumCodes
TxIds == 1 .. MaxTx
PayMethods == {"cash", "transfer"}
Notes == {"", "hola"}
\* The names a listing may be given.
Names == {"remera", "campera"}
\* Python's None, for a user id.
None == "none"

\* Transaction.STATUS
PENDING == "pendiente"
CONFIRMED == "confirmada"
PAYMENT_CONFIRMED == "pago_confirmado"
COMPLETED == "completada"
CANCELLED == "cancelada"

\* Product.STATUS
AVAILABLE == "disponible"
RESERVED == "reservado"
SOLD == "vendido"
INACTIVE == "inactivo"

VARIABLES
    products,   \* the products collection: product id -> document
    txs,        \* the transactions collection, in insertion order: _id -> document
    req,        \* handler thread -> the request it serves and where it stands
    clock,      \* the last value datetime.utcnow() gave
    out,        \* the request answered by the last step, with its response
    left,       \* requests that may still pass their checks (the bound)
    obs,        \* what is recorded of the answers: "writers", "all" or "log"
    sent        \* under "log": every answer so far, by handler thread

vars == <<products, txs, req, clock, out, left, obs, sent>>

\* ------------------------------------------------------------- registry
\* Product.create: the document of a new listing of owner u.
NewProduct(u, nombre) ==
    [user_id |-> u, nombre |-> nombre, estado |-> AVAILABLE, stock |-> 1,
     reserved_by |-> None, transaction_id |-> 0]

\* create_reservation: the check of the route on the product it read.
IsListed(prod) ==
    prod.estado # SOLD

IsAvailable(prod) ==
    prod.estado = AVAILABLE

\* create_reservation: the self-purchase check of the route, the owner of
\* the product it read against the caller.
IsNoOwner(prod, user_id) ==
    FALSE

IsOwner(prod, user_id) ==
    prod.user_id = user_id

\* Product.reserve, the filter of its update_one: the compare on estado.
ReserveFilterAny(prod) ==
    TRUE

ReserveFilter(prod) ==
    prod.estado = AVAILABLE

\* Product.reserve, the checks on the document it read first.
ReserveAllowed(prod, buyer_id) ==
    /\ prod.estado = AVAILABLE
    /\ prod.user_id # buyer_id

\* Product.reserve, the $set of its update_one.
ReserveSetNoBuyer(prod, buyer_id, transaction_id) ==
    [prod EXCEPT !.estado = RESERVED, !.transaction_id = transaction_id]

ReserveSet(prod, buyer_id, transaction_id) ==
    [prod EXCEPT !.estado = RESERVED, !.reserved_by = buyer_id,
                 !.transaction_id = transaction_id]

\* Product.unreserve, the $set of its update_one.
UnreserveIfReserved(prod) ==
    IF prod.estado = RESERVED
    THEN [prod EXCEPT !.estado = AVAILABLE, !.reserved_by = None,
                      !.transaction_id = 0]
    ELSE prod

UnreserveKeepBuyer(prod) ==
    [prod EXCEPT !.estado = AVAILABLE, !.transaction_id = 0]

Unreserve(prod) ==
    [prod EXCEPT !.estado = AVAILABLE, !.reserved_by = None,
                 !.transaction_id = 0]

\* Product.mark_as_sold, the $set of its update_one.
MarkAsSoldKeepStock(prod, transaction_id) ==
    [prod EXCEPT !.estado = SOLD, !.transaction_id = transaction_id]

MarkAsSold(prod, transaction_id) ==
    [prod EXCEPT !.estado = SOLD, !.stock = 0,
                 !.transaction_id = transaction_id]

\* ------------------------------------------------------------- ledger
TimelineEvent(status, ts, message, by) ==
    [status |-> status, timestamp |-> ts, message |-> message, by_user_id |-> by]

\* Transaction.create: the document it inserts.
NewTxNoSnapshot(code, product_id, buyer_id, seller_id, snapshot, ts) ==
    [transaction_code |-> code, product_id |-> product_id,
     buyer_id |-> buyer_id, seller_id |-> seller_id,
     product_snapshot |-> "", status |-> PENDING,
     timeline |-> <<TimelineEvent(PENDING, ts, "Reserva creada", None)>>,
     seller_confirmed |-> FALSE, buyer_paid |-> FALSE,
     payment_method |-> "", completed_at |-> 0]

NewTx(code, product_id, buyer_id, seller_id, snapshot, ts) ==
    [transaction_code |-> code, product_id |-> product_id,
     buyer_id |-> buyer_id, seller_id |-> seller_id,
     product_snapshot |-> snapshot, status |-> PENDING,
     timeline |-> <<TimelineEvent(PENDING, ts, "Reserva creada", None)>>,
     seller_confirmed |-> FALSE, buyer_paid |-> FALSE,
     payment_method |-> "", completed_at |-> 0]

\* Transaction.create: the find_one of the loop on the generated code.
CodeNeverInUse(code) ==
    FALSE

CodeInUse(code) ==
    \E i \in 1 .. Len(txs) : txs[i].transaction_code = code

\* The party check of the routes and of Transaction.update_status / add_note.
IsAnyone(tx, user_id) ==
    TRUE

IsParty(tx, user_id) ==
    user_id \in {tx.buyer_id, tx.seller_id}

\* Transaction.update_status: the $set and $push of its update_one.
UpdateStatusResetFlags(tx, new_status, message, user_id, ts) ==
    [tx EXCEPT !.status = new_status,
               !.seller_confirmed = FALSE,
               !.buyer_paid = FALSE,
               !.completed_at = IF new_status = COMPLETED THEN ts ELSE @,
               !.timeline = Append(@, TimelineEvent(new_status, ts, message, user_id))]

UpdateStatusNoPush(tx, new_status, message, user_id, ts) ==
    [tx EXCEPT !.status = new_status,
               !.completed_at = IF new_status = COMPLETED THEN ts ELSE @]

UpdateStatus(tx, new_status, message, user_id, ts) ==
    [tx EXCEPT !.status = new_status,
               !.completed_at = IF new_status = COMPLETED THEN ts ELSE @,
               !.timeline = Append(@, TimelineEvent(new_status, ts, message, user_id))]

\* Transaction.seller_confirm: the $set and $push of its update_one.
SellerConfirmTx(tx, seller_id, payment_method, ts) ==
    [tx EXCEPT !.status = CONFIRMED, !.seller_confirmed = TRUE,
               !.payment_method = payment_method,
               !.timeline = Append(@, TimelineEvent(CONFIRMED, ts,
                                   "Vendedor confirmo la venta", seller_id))]

\* Transaction.buyer_confirm_payment: the $set and $push of its update_one.
BuyerConfirmTx(tx, buyer_id, ts) ==
    [tx EXCEPT !.status = PAYMENT_CONFIRMED, !.buyer_paid = TRUE,
               !.timeline = Append(@, TimelineEvent(PAYMENT_CONFIRMED, ts,
                                   "Comprador confirmo el pago", buyer_id))]

\* Transaction.add_note: the $push of its update_one, labelled with the
\* status of the document it read before.
AddNoteTx(tx, read_status, user_id, ts) ==
    [tx EXCEPT !.timeline = Append(@, TimelineEvent(read_status, ts,
                                   "Nota agregada", user_id))]

\* complete_transaction (route): both confirmations are on the document read.
SellerConfirmedOnly(tx) ==
    tx.seller_confirmed

NoConfirmationCheck(tx) ==
    TRUE

BothConfirmed(tx) ==
    tx.seller_confirmed /\ tx.buyer_paid

\* ------------------------------------------------------------- requests
\* The response of a handler: HTTP status and the kind of its message.
Resp(code, msg) == [code |-> code, msg |-> msg]

NoResp == Resp(0, "")

\* A handler thread with no request.
IdleReq ==
    [pc |-> "idle", op |-> "", user |-> None, pid |-> NoProduct, tid |-> 0,
     pm |-> "", code |-> 0, ts |-> 0, rd |-> "", res |-> NoResp]

\* No response leaves the server in this step.
NoOut == [IdleReq EXCEPT !.pc = "none"]

Idle(r) == req[r].pc = "idle"

\* A new request is taken by the first free handler thread.
CanStart(r) ==
    /\ Idle(r)
    /\ \A q \in Reqs : q < r => ~Idle(q)

\* A handler thread that is not running (a server with fewer threads).
OffReq == [IdleReq EXCEPT !.pc = "off"]

\* Reservations that may still insert a transaction.
Inserting == {q \in Reqs : req[q].pc \in {"r_code", "r_insert"}}

\* The request q is answered with resp before its first write: the thread
\* is free again and out holds the answered request.
Reject(q, resp) ==
    /\ obs # "writers"
    /\ out' = [q EXCEPT !.pc = "done", !.res = resp]
    /\ UNCHANGED <<req, clock, left, sent>>

\* The request q passes its checks and goes on at pc, with the clock read.
Pass(r, q, pc) ==
    /\ left > 0
    /\ left' = left - 1
    /\ clock' = clock + 1
    /\ req' = [req EXCEPT ![r] = [q EXCEPT !.pc = pc, !.ts = clock + 1]]
    /\ out' = NoOut
    /\ UNCHANGED sent

\* The request of thread r is answered with resp.
Finish(r, resp) ==
    /\ out' = [req[r] EXCEPT !.pc = "done", !.res = resp]
    /\ req' = [req EXCEPT ![r] = IdleReq]
    /\ sent' = IF obs = "log" THEN [sent EXCEPT ![r] = out'] ELSE sent

\* The request of thread r goes on at pc.
Goto(r, pc) ==
    /\ req' = [req EXCEPT ![r].pc = pc]
    /\ out' = NoOut
    /\ UNCHANGED sent

TxExists(t) == t \in 1 .. Len(txs)

\* The listing of the model: one product of owner u1.
Listing == NewProduct("u1", "remera")

\* The store with no transaction yet: the product listed, or deactivated by
\* its owner (Product.change_status).
Fresh ==
    /\ products \in [Products -> {Listing, [Listing EXCEPT !.estado = INACTIVE]}]
    /\ txs = <<>>
    /\ clock = 0

\* The store after u2 reserved the product, the seller confirmed and the
\* buyer confirmed the payment, one request after the other.
Late ==
    /\ products = [p \in Products |-> ReserveSet(Listing, "u2", 1)]
    /\ txs = << BuyerConfirmTx(
                  SellerConfirmTx(NewTx(1, "p1", "u2", "u1", Listing.nombre, 1),
                                  "u1", "cash", 2),
                  "u2", 3) >>
    /\ clock = 3

Quiet ==
    /\ req = [r \in Reqs |-> IdleReq]
    /\ out = NoOut
    /\ sent = [r \in Reqs |-> NoOut]

Init ==
    /\ Fresh \/ Late
    /\ Quiet
    /\ left = MaxOps
    /\ obs = "writers"

\* The same, with the rejected requests recorded.
InitObs ==
    /\ Fresh \/ Late
    /\ Quiet
    /\ left = MaxObsOps
    /\ obs = "all"

\* The same, on a server with one handler thread: no two requests overlap.
InitSeq ==
    /\ Fresh \/ Late
    /\ req = [r \in Reqs |-> IF r = 1 THEN IdleReq ELSE OffReq]
    /\ out = NoOut
    /\ sent = [r \in Reqs |-> NoOut]
    /\ left = MaxSeqOps
    /\ obs = "writers"

\* The store after u2 reserved the product and cancelled: the product is
\* available again and one code is taken.
Released ==
    /\ products = [p \in Products |-> Unreserve(ReserveSet(Listing, "u2", 1))]
    /\ txs = << UpdateStatus(NewTx(1, "p1", "u2", "u1", Listing.nombre, 1),
                             CANCELLED, "Transaccion cancelada", "u2", 2) >>
    /\ clock = 2

\* Two reservations of the available product by two different buyers, both
\* past the first read of create_reservation, and no other request.
InitRace ==
    /\ (Fresh /\ \A p \in Products : products[p].estado = AVAILABLE) \/ Released
    /\ \E a, b \in Users \ {Listing.user_id} :
          /\ a # b
          /\ req = [r \in Reqs |->
                      [IdleReq EXCEPT !.pc = "r_code", !.op = "reserve", !.pid = "p1",
                                      !.user = IF r = 1 THEN a ELSE b,
                                      !.rd = Listing.nombre]]
    /\ out = NoOut
    /\ sent = [r \in Reqs |-> NoOut]
    /\ left = 0
    /\ obs = "log"

\* create_reservation up to its first read: the product and the checks on it.
ReserveFind(r, u, p) ==
    /\ CanStart(r)
    /\ UNCHANGED <<products, txs, obs>>
    /\ LET q == [IdleReq EXCEPT !.op = "reserve", !.user = u, !.pid = p]
       IN  IF p \notin Products
           THEN Reject(q, Resp(404, "Producto no encontrado"))
           ELSE IF ~IsAvailable(products[p])
           THEN Reject(q, Resp(400, "El producto no esta disponible"))
           ELSE IF IsOwner(products[p], u)
           THEN Reject(q, Resp(400, "No puedes comprar tu propio producto"))
           ELSE /\ Len(txs) + Cardinality(Inserting) < MaxTx
                /\ left > 0
                /\ left' = left - 1
                /\ req' = [req EXCEPT ![r] = [q EXCEPT !.pc = "r_code",
                                                       !.rd = products[p].nombre]]
                /\ out' = NoOut
                /\ UNCHANGED <<clock, sent>>

\* Transaction.create: generate a code and look it up; the timestamps of the
\* document are taken once the loop is left.
ReserveCode(r, c) ==
    /\ req[r].pc = "r_code"
    /\ UNCHANGED <<products, txs, left, obs>>
    /\ IF CodeInUse(c)
       THEN /\ out' = NoOut
            /\ UNCHANGED <<req, clock, sent>>
       ELSE /\ clock' = clock + 1
            /\ req' = [req EXCEPT ![r].pc = "r_insert", ![r].code = c,
                                  ![r].ts = clock + 1]
            /\ out' = NoOut
            /\ UNCHANGED sent

\* Transaction.create: insert_one under the unique index on transaction_code;
\* a duplicate key raises, and the route answers 500.
ReserveInsert(r) ==
    /\ req[r].pc = "r_insert"
    /\ UNCHANGED <<products, clock, left, obs>>
    /\ IF CodeInUse(req[r].code)
       THEN /\ Finish(r, Resp(500, "Error al crear reserva"))
            /\ UNCHANGED txs
       ELSE /\ txs' = Append(txs, NewTx(req[r].code, req[r].pid, req[r].user,
                                        products[req[r].pid].user_id, req[r].rd,
                                        req[r].ts))
            /\ req' = [req EXCEPT ![r].pc = "r_pfind", ![r].tid = Len(txs) + 1]
            /\ out' = NoOut
            /\ UNCHANGED sent

\* Product.reserve: its find_by_id and the checks on the document.
ReservePFind(r) ==
    /\ req[r].pc = "r_pfind"
    /\ UNCHANGED <<products, txs, clock, left, obs>>
    /\ IF ReserveAllowed(products[req[r].pid], req[r].user)
       THEN Goto(r, "r_pupdate")
       ELSE Finish(r, Resp(400, "No se pudo reservar el producto"))

\* Product.reserve: its conditional update_one, then the response.
ReservePUpdate(r) ==
    /\ req[r].pc = "r_pupdate"
    /\ UNCHANGED <<txs, clock, left, obs>>
    /\ LET p == req[r].pid
       IN  IF ReserveFilter(products[p])
           THEN /\ products' = [products EXCEPT
                                  ![p] = ReserveSet(@, req[r].user, req[r].tid)]
                /\ Finish(r, Resp(201, "Producto reservado exitosamente"))
           ELSE /\ UNCHANGED products
                /\ Finish(r, Resp(400, "No se pudo reservar el producto"))

\* What a handler keeps of the transaction document its route read.
ReadTx(q, t) ==
    [q EXCEPT !.pid = txs[t].product_id, !.rd = txs[t].status]

\* seller_confirm up to its update: the route's find_by_id and checks, then
\* Transaction.seller_confirm's own find_by_id, check and timeline event.
SellerConfirmFind(r, u, t, pm) ==
    /\ CanStart(r)
    /\ UNCHANGED <<products, txs, obs>>
    /\ LET q == [IdleReq EXCEPT !.op = "seller_confirm", !.user = u, !.tid = t,
                                !.pm = pm]
       IN  IF ~TxExists(t)
           THEN Reject(q, Resp(404, "Transaccion no encontrada"))
           ELSE IF txs[t].seller_id # u
           THEN Reject(q, Resp(403, "No tienes permiso"))
           ELSE Pass(r, ReadTx(q, t), "sc_update")

\* Transaction.seller_confirm: its update_one, then the response.
SellerConfirmUpdate(r) ==
    /\ req[r].pc = "sc_update"
    /\ txs' = [txs EXCEPT ![req[r].tid] =
                 SellerConfirmTx(@, req[r].user, req[r].pm, req[r].ts)]
    /\ Finish(r, Resp(200, "Venta confirmada exitosamente"))
    /\ UNCHANGED <<products, clock, left, obs>>

\* buyer_confirm_payment up to its update.
BuyerConfirmFind(r, u, t) ==
    /\ CanStart(r)
    /\ UNCHANGED <<products, txs, obs>>
    /\ LET q == [IdleReq EXCEPT !.op = "buyer_confirm_payment", !.user = u,
                                !.tid = t]
       IN  IF ~TxExists(t)
           THEN Reject(q, Resp(404, "Transaccion no encontrada"))
           ELSE IF txs[t].buyer_id # u
           THEN Reject(q, Resp(403, "No tienes permiso"))
           ELSE Pass(r, ReadTx(q, t), "bc_update")

\* Transaction.buyer_confirm_payment: its update_one, then the response.
BuyerConfirmUpdate(r) ==
    /\ req[r].pc = "bc_update"
    /\ txs' = [txs EXCEPT ![req[r].tid] = BuyerConfirmTx(@, req[r].user, req[r].ts)]
    /\ Finish(r, Resp(200, "Pago confirmado exitosamente"))
    /\ UNCHANGED <<products, clock, left, obs>>

\* complete_transaction up to the ledger update: the route's find_by_id and
\* checks, then Transaction.update_status's find_by_id, check and event.
CompleteFind(r, u, t) ==
    /\ CanStart(r)
    /\ UNCHANGED <<products, txs, obs>>
    /\ LET q == [IdleReq EXCEPT !.op = "complete", !.user = u, !.tid = t]
       IN  IF ~TxExists(t)
           THEN Reject(q, Resp(404, "Transaccion no encontrada"))
           ELSE IF ~IsParty(txs[t], u)
           THEN Reject(q, Resp(403, "No tienes permiso"))
           ELSE IF ~BothConfirmed(txs[t])
           THEN Reject(q, Resp(400, "Ambas partes deben confirmar"))
           ELSE Pass(r, ReadTx(q, t), "c_update")

\* Transaction.complete_transaction: the update_one of update_status.
CompleteUpdate(r) ==
    /\ req[r].pc = "c_update"
    /\ txs' = [txs EXCEPT ![req[r].tid] =
                 UpdateStatus(@, COMPLETED, "Transaccion completada exitosamente",
                              req[r].user, req[r].ts)]
    /\ Goto(r, "c_sold")
    /\ UNCHANGED <<products, clock, left, obs>>

\* complete_transaction: Product.mark_as_sold on the product id of the
\* document the route read, then the response.
CompleteSold(r) ==
    /\ req[r].pc = "c_sold"
    /\ products' = [products EXCEPT ![req[r].pid] = MarkAsSold(@, req[r].tid)]
    /\ Finish(r, Resp(200, "Transaccion completada exitosamente"))
    /\ UNCHANGED <<txs, clock, left, obs>>

\* cancel_transaction up to the ledger update.
CancelFind(r, u, t) ==
    /\ CanStart(r)
    /\ UNCHANGED <<products, txs, obs>>
    /\ LET q == [IdleReq EXCEPT !.op = "cancel", !.user = u, !.tid = t]
       IN  IF ~TxExists(t)
           THEN Reject(q, Resp(404, "Transaccion no encontrada"))
           ELSE IF ~IsParty(txs[t], u)
           THEN Reject(q, Resp(403, "No tienes permiso"))
           ELSE Pass(r, ReadTx(q, t), "x_update")

\* Transaction.cancel_transaction: the update_one of update_status.
CancelUpdate(r) ==
    /\ req[r].pc = "x_update"
    /\ txs' = [txs EXCEPT ![req[r].tid] =
                 UpdateStatus(@, CANCELLED, "Transaccion cancelada",
                              req[r].user, req[r].ts)]
    /\ Goto(r, "x_unreserve")
    /\ UNCHANGED <<products, clock, left, obs>>

\* cancel_transaction: Product.unreserve on the product id of the document
\* the route read, then the response.
CancelUnreserve(r) ==
    /\ req[r].pc = "x_unreserve"
    /\ products' = [products EXCEPT ![req[r].pid] = Unreserve(@)]
    /\ Finish(r, Resp(200, "Transaccion cancelada exitosamente"))
    /\ UNCHANGED <<txs, clock, left, obs>>

\* add_note up to its update: the route's check of the note, then
\* Transaction.add_note's find_by_id, check and timestamps.
AddNoteFind(r, u, t, note) ==
    /\ CanStart(r)
    /\ UNCHANGED <<products, txs, obs>>
    /\ LET q == [IdleReq EXCEPT !.op = "add_note", !.user = u, !.tid = t]
       IN  IF note = ""
           THEN Reject(q, Resp(400, "La nota no puede estar vacia"))
           ELSE IF ~TxExists(t) \/ ~IsParty(txs[t], u)
           THEN Reject(q, Resp(400, "No se pudo agregar la nota"))
           ELSE Pass(r, ReadTx(q, t), "n_update")

\* Transaction.add_note: its update_one, then the response.
AddNoteUpdate(r) ==
    /\ req[r].pc = "n_update"
    /\ txs' = [txs EXCEPT ![req[r].tid] =
                 AddNoteTx(@, req[r].rd, req[r].user, req[r].ts)]
    /\ Finish(r, Resp(200, "Nota agregada exitosamente"))
    /\ UNCHANGED <<products, clock, left, obs>>

Next ==
    \/ \E r \in Reqs, u \in Users, p \in Products \cup {NoProduct} : ReserveFind(r, u, p)
    \/ \E r \in Reqs, c \in Codes : ReserveCode(r, c)
    \/ \E r \in Reqs : ReserveInsert(r)
    \/ \E r \in Reqs : ReservePFind(r)
    \/ \E r \in Reqs : ReservePUpdate(r)
    \/ \E r \in Reqs, u \in Users, t \in TxIds, pm \in PayMethods :
          SellerConfirmFind(r, u, t, pm)
    \/ \E r \in Reqs : SellerConfirmUpdate(r)
    \/ \E r \in Reqs, u \in Users, t \in TxIds : BuyerConfirmFind(r, u, t)
    \/ \E r \in Reqs : BuyerConfirmUpdate(r)
    \/ \E r \in Reqs, u \in Users, t \in TxIds : CompleteFind(r, u, t)
    \/ \E r \in Reqs : CompleteUpdate(r)
    \/ \E r \in Reqs : CompleteSold(r)
    \/ \E r \in Reqs, u \in Users, t \in TxIds : CancelFind(r, u, t)
    \/ \E r \in Reqs : CancelUpdate(r)
    \/ \E r \in Reqs : CancelUnreserve(r)
    \/ \E r \in Reqs, u \in Users, t \in TxIds, note \in Notes :
          AddNoteFind(r, u, t, note)
    \/ \E r \in Reqs : AddNoteUpdate(r)

Spec == Init /\ [][Next]_vars

SpecObs == InitObs /\ [][Next]_vars

SpecSeq == InitSeq /\ [][Next]_vars

\* The steps of create_reservation after its first read.
NextRace ==
    \/ \E r \in Reqs, c \in Codes : ReserveCode(r, c)
    \/ \E r \in Reqs : ReserveInsert(r)
    \/ \E r \in Reqs : ReservePFind(r)
    \/ \E r \in Reqs : ReservePUpdate(r)

SpecRace == InitRace /\ [][NextRace]_vars

\* Product.update: the owner edits the listing; the update_one filters on
\* the product id and the owner, and sets the fields given (here the name,
\* which stands for the six fields the snapshot copies).
Update(p, user_id, nombre) ==
    /\ products[p].user_id = user_id
    /\ products[p].nombre # nombre
    /\ products' = [products EXCEPT ![p].nombre = nombre]
    /\ out' = NoOut
    /\ UNCHANGED <<txs, req, clock, left, obs, sent>>

InitEdit ==
    /\ Fresh \/ Late
    /\ Quiet
    /\ left = MaxEditOps
    /\ obs = "writers"

\* The requests of the workflow, and the edits of the listing.
NextEdit ==
    \/ Next
    \/ \E p \in Products, u \in Users, n \in Names : Update(p, u, n)

SpecEdit == InitEdit /\ [][NextEdit]_vars

\* Two reservations of the available product by two different buyers, both
\* past the first read of create_reservation; confirmations may follow, and
\* each thread keeps its last answer.
InitOrphan ==
    /\ Fresh
    /\ \A p \in Products : products[p].estado = AVAILABLE
    /\ \E a, b \in Users \ {Listing.user_id} :
          /\ a # b
          /\ req = [r \in Reqs |->
                      [IdleReq EXCEPT !.pc = "r_code", !.op = "reserve", !.pid = "p1",
                                      !.user = IF r = 1 THEN a ELSE b,
                                      !.rd = Listing.nombre]]
    /\ out = NoOut
    /\ sent = [r \in Reqs |-> NoOut]
    /\ left = MaxOrphanOps
    /\ obs = "log"

\* The steps of create_reservation after its first read, and the
\* confirmations of the seller and of the buyer.
NextOrphan ==
    \/ NextRace
    \/ \E r \in Reqs, u \in Users, t \in TxIds, pm \in PayMethods :
          SellerConfirmFind(r, u, t, pm)
    \/ \E r \in Reqs : SellerConfirmUpdate(r)
    \/ \E r \in Reqs, u \in Users, t \in TxIds : BuyerConfirmFind(r, u, t)
    \/ \E r \in Reqs : BuyerConfirmUpdate(r)

SpecOrphan == InitOrphan /\ [][NextOrphan]_vars

\* The ledger after u2 and u3 raced for the product, u2 won, the seller
\* confirmed u2's transaction and u2 confirmed the payment: transaction 1
\* holds the product, transaction 2 is the pending one of the loser.
TwoTxs ==
    << BuyerConfirmTx(
         SellerConfirmTx(NewTx(1, "p1", "u2", "u1", Listing.nombre, 1),
                         "u1", "cash", 3),
         "u2", 4),
       NewTx(2, "p1", "u3", "u1", Listing.nombre, 2) >>

\* The registry in that state.
TwoTxsProducts == [p \in Products |-> ReserveSet(Listing, "u2", 1)]

\* That store, no request running, each thread keeping its last answer.
InitPair ==
    /\ products = TwoTxsProducts
    /\ txs = TwoTxs
    /\ clock = 4
    /\ Quiet
    /\ left = MaxPairOps
    /\ obs = "log"

\* The requests on a stored transaction.
NextPair ==
    \/ \E r \in Reqs, u \in Users, t \in TxIds, pm \in PayMethods :
          SellerConfirmFind(r, u, t, pm)
    \/ \E r \in Reqs : SellerConfirmUpdate(r)
    \/ \E r \in Reqs, u \in Users, t \in TxIds : BuyerConfirmFind(r, u, t)
    \/ \E r \in Reqs : BuyerConfirmUpdate(r)
    \/ \E r \in Reqs, u \in Users, t \in TxIds : CompleteFind(r, u, t)
    \/ \E r \in Reqs : CompleteUpdate(r)
    \/ \E r \in Reqs : CompleteSold(r)
    \/ \E r \in Reqs, u \in Users, t \in TxIds : CancelFind(r, u, t)
    \/ \E r \in Reqs : CancelUpdate(r)
    \/ \E r \in Reqs : CancelUnreserve(r)
    \/ \E r \in Reqs, u \in Users, t \in TxIds, note \in Notes :
          AddNoteFind(r, u, t, note)
    \/ \E r \in Reqs : AddNoteUpdate(r)

SpecPair == InitPair /\ [][NextPair]_vars

\* The store after the transaction of Late was completed by the seller.
Sold ==
    /\ products = [p \in Products |-> MarkAsSold(ReserveSet(Listing, "u2", 1), 1)]
    /\ txs = << UpdateStatus(
                  BuyerConfirmTx(
                    SellerConfirmTx(NewTx(1, "p1", "u2", "u1", Listing.nombre, 1),
                                    "u1", "cash", 2),
                    "u2", 3),
                  COMPLETED, "Transaccion completada exitosamente", "u1", 4) >>
    /\ clock = 4

\* Product.change_status: the owner sets the status of the listing; the
\* update_one filters on the product id and the owner.
ChangeStatus(p, user_id, status) ==
    /\ products[p].user_id = user_id
    /\ products[p].estado # status
    /\ products' = [products EXCEPT ![p].estado = status]
    /\ out' = NoOut
    /\ UNCHANGED <<txs, req, clock, left, obs, sent>>

\* Any of the stores above, and no request yet.
InitRegistry ==
    /\ Fresh \/ Late \/ Released \/ Sold
    /\ Quiet
    /\ left = MaxRegistryOps
    /\ obs = "writers"

\* The writers of a product outside the reservation: edits and status
\* changes by the owner, and cancel_transaction, which releases it.
NextRegistry ==
    \/ \E p \in Products, u \in Users, n \in Names : Update(p, u, n)
    \/ \E p \in Products, u \in Users,
          status \in {AVAILABLE, RESERVED, SOLD, INACTIVE} : ChangeStatus(p, u, status)
    \/ \E r \in Reqs, u \in Users, t \in TxIds : CancelFind(r, u, t)
    \/ \E r \in Reqs : CancelUpdate(r)
    \/ \E r \in Reqs : CancelUnreserve(r)

SpecRegistry == InitRegistry /\ [][NextRegistry]_vars

\* The store after u2 and u3 raced for the product, u2 won and cancelled:
\* the product is available again and every code is taken.
Exhausted ==
    /\ products = [p \in Products |-> Unreserve(ReserveSet(Listing, "u2", 1))]
    /\ txs = << UpdateStatus(NewTx(1, "p1", "u2", "u1", Listing.nombre, 1),
                             CANCELLED, "Transaccion cancelada", "u2", 3),
                NewTx(2, "p1", "u3", "u1", Listing.nombre, 2) >>
    /\ clock = 3

\* Two reservations of the available product by two different buyers, both
\* entering the loop of Transaction.create, with no, one or every code taken.
InitCodes ==
    /\ \/ Fresh /\ \A p \in Products : products[p].estado = AVAILABLE
       \/ Released
       \/ Exhausted
    /\ \E a, b \in Users \ {Listing.user_id} :
          /\ a # b
          /\ req = [r \in Reqs |->
                      [IdleReq EXCEPT !.pc = "r_code", !.op = "reserve", !.pid = "p1",
                                      !.user = IF r = 1 THEN a ELSE b,
                                      !.rd = Listing.nombre]]
    /\ out = NoOut
    /\ sent = [r \in Reqs |-> NoOut]
    /\ left = 0
    /\ obs = "log"

\* secrets.choice gives every code again and again, and a handler thread
\* that can take its next step takes it.
FairCodes ==
    \A r \in Reqs :
      /\ \A c \in Codes : WF_vars(ReserveCode(r, c))
      /\ WF_vars(ReserveInsert(r))
      /\ WF_vars(ReservePFind(r))
      /\ WF_vars(ReservePUpdate(r))

SpecCodes == InitCodes /\ [][NextRace]_vars /\ FairCodes

\* The listed, available product and no transaction; one handler thread;
\* the rejected requests are recorded.
InitPath ==
    /\ products = [p \in Products |-> Listing]
    /\ txs = <<>>
    /\ clock = 0
    /\ req = [r \in Reqs |-> IF r = 1 THEN IdleReq ELSE OffReq]
    /\ out = NoOut
    /\ sent = [r \in Reqs |-> NoOut]
    /\ left = MaxPathOps
    /\ obs = "all"

\* The requests of the workflow chain: Reserve, SellerConfirm,
\* BuyerConfirmPayment and Complete, by any user, in any order.
NextPath ==
    \/ \E r \in Reqs, u \in Users, p \in Products \cup {NoProduct} : ReserveFind(r, u, p)
    \/ \E r \in Reqs, c \in Codes : ReserveCode(r, c)
    \/ \E r \in Reqs : ReserveInsert(r)
    \/ \E r \in Reqs : ReservePFind(r)
    \/ \E r \in Reqs : ReservePUpdate(r)
    \/ \E r \in Reqs, u \in Users, t \in TxIds, pm \in PayMethods :
          SellerConfirmFind(r, u, t, pm)
    \/ \E r \in Reqs : SellerConfirmUpdate(r)
    \/ \E r \in Reqs, u \in Users, t \in TxIds : BuyerConfirmFind(r, u, t)
    \/ \E r \in Reqs : BuyerConfirmUpdate(r)
    \/ \E r \in Reqs, u \in Users, t \in TxIds : CompleteFind(r, u, t)
    \/ \E r \in Reqs : CompleteUpdate(r)
    \/ \E r \in Reqs : CompleteSold(r)

SpecPath == InitPath /\ [][NextPath]_vars

\* ------------------------------------------------------------- claims
Terminal == {COMPLETED, CANCELLED}

NonTerminal == {PENDING, CONFIRMED, PAYMENT_CONFIRMED}

Stored == 1 .. Len(txs)

\* The transactions of product p that are neither completed nor cancelled.
ActiveOf(p) ==
    {t \in Stored : txs[t].product_id = p /\ txs[t].status \notin Terminal}

\* C1: in every reachable state each product is referenced by at most one
\* transaction that is neither completed nor cancelled.
C1_AtMostOneActive ==
    \A p \in Products : Cardinality(ActiveOf(p)) <= 1

RaceOver == \A r \in Reqs : Idle(r)

Failed(answer) == answer.res.code \in {400, 500}

\* C2: two concurrent reservations of the available product by different
\* buyers: once both are answered, exactly one got 201 and the other failed,
\* and the product is reserved by the winner under the winner's transaction.
C2_ExactlyOneReserves ==
    RaceOver =>
      \E w \in Reqs :
        /\ sent[w].op = "reserve" /\ sent[w].res.code = 201
        /\ \A l \in Reqs \ {w} : sent[l].op = "reserve" /\ Failed(sent[l])
        /\ sent[w].tid \in Stored
        /\ txs[sent[w].tid].buyer_id = sent[w].user
        /\ \A p \in Products :
             /\ products[p].estado = RESERVED
             /\ products[p].reserved_by = sent[w].user
             /\ products[p].transaction_id = sent[w].tid
             /\ products[p].stock = 1

\* The race is over and the request that wrote its transaction second won.
C2_Witness ==
    /\ RaceOver
    /\ \E w \in Reqs : sent[w].res.code = 201 /\ sent[w].tid = Len(txs)
                       /\ Len(txs) >= 2
    /\ \E l \in Reqs : sent[l].res.code = 400

\* C3: a reservation of a product that is not available is answered 400
\* "not available" at once, whoever asks, and writes nothing.
C3_UnavailableRejected ==
    [][\A r \in Reqs, u \in Users, p \in Products :
         (ReserveFind(r, u, p) /\ products[p].estado # AVAILABLE)
           => /\ out'.op = "reserve" /\ out'.user = u /\ out'.pid = p
              /\ out'.res = Resp(400, "El producto no esta disponible")
              /\ products' = products
              /\ txs' = txs]_vars

\* A reservation of the sold product was just rejected.
C3_Witness ==
    /\ out.op = "reserve"
    /\ out.res = Resp(400, "El producto no esta disponible")
    /\ out.pid \in Products
    /\ products[out.pid].estado = SOLD

\* C4: a product that is sold stays sold.
C4_SoldForever ==
    [][\A p \in Products :
         products[p].estado = SOLD => products'[p].estado = SOLD]_vars

\* C5: a transaction that is completed or cancelled keeps its status.
C5_TerminalForever ==
    [][\A t \in Stored :
         txs[t].status \in Terminal => txs'[t].status = txs[t].status]_vars

\* C6, as stated: Complete on a transaction that lacks a confirmation is
\* answered 400 and writes nothing, whoever asks.
C6_IncompleteRejected ==
    [][\A r \in Reqs, u \in Users, t \in TxIds :
         (CompleteFind(r, u, t) /\ TxExists(t) /\ ~BothConfirmed(txs[t]))
           => /\ out'.op = "complete" /\ out'.res.code = 400
              /\ txs' = txs
              /\ products' = products]_vars

\* C6, amended: Complete by the buyer or the seller of a transaction that
\* lacks a confirmation is answered 400 and writes nothing.
C6_IncompleteRejectedForParty ==
    [][\A r \in Reqs, u \in Users, t \in TxIds :
         (CompleteFind(r, u, t) /\ TxExists(t) /\ IsParty(txs[t], u)
            /\ ~(txs[t].seller_confirmed /\ txs[t].buyer_paid))
           => /\ out'.op = "complete" /\ out'.user = u /\ out'.tid = t
              /\ out'.res = Resp(400, "Ambas partes deben confirmar")
              /\ txs' = txs
              /\ products' = products]_vars

\* Complete was just rejected on a transaction only the seller confirmed.
C6_Witness ==
    /\ out.op = "complete"
    /\ out.res.code = 400
    /\ out.tid \in Stored
    /\ txs[out.tid].seller_confirmed
    /\ ~txs[out.tid].buyer_paid

\* C7: when Complete is answered 200, the transaction is completed with
\* completed_at set and its product is sold, out of stock, under it.
C7_CompleteAnswered ==
    (out.op = "complete" /\ out.res.code = 200) =>
      /\ txs[out.tid].status = COMPLETED
      /\ txs[out.tid].completed_at # 0
      /\ products[out.pid].estado = SOLD
      /\ products[out.pid].stock = 0
      /\ products[out.pid].transaction_id = out.tid

\* C8: with no other request running, Cancel by a party of a transaction
\* it read as pending, confirmed or payment-confirmed is answered 200 with
\* the transaction cancelled and the product available, with no buyer and
\* no transaction.
C8_CancelReleases ==
    /\ \A r \in Reqs :
         req[r].op = "cancel" => IsParty(txs[req[r].tid], req[r].user)
    /\ (out.op = "cancel" /\ out.rd \in NonTerminal) =>
         /\ out.res.code = 200
         /\ IsParty(txs[out.tid], out.user)
         /\ txs[out.tid].status = CANCELLED
         /\ products[out.pid].estado = AVAILABLE
         /\ products[out.pid].reserved_by = None
         /\ products[out.pid].transaction_id = 0

\* The seller just cancelled a transaction that was payment-confirmed.
C8_Witness ==
    /\ out.op = "cancel"
    /\ out.res.code = 200
    /\ out.rd = PAYMENT_CONFIRMED
    /\ out.user = txs[out.tid].seller_id
    /\ txs[out.tid].status = CANCELLED

\* C9: a product is reserved exactly when it has a buyer and a transaction
\* that is stored and neither completed nor cancelled.
C9_ReservedIffActive ==
    \A p \in Products :
      products[p].estado = RESERVED <=>
        /\ products[p].reserved_by # None
        /\ products[p].transaction_id \in Stored
        /\ txs[products[p].transaction_id].status \notin Terminal

\* The moves of the status the workflow chain allows.
ChainMoves ==
    {<<PENDING, CONFIRMED>>, <<CONFIRMED, PAYMENT_CONFIRMED>>,
     <<PAYMENT_CONFIRMED, COMPLETED>>}
      \cup {<<st, CANCELLED>> : st \in NonTerminal}

\* C10: the status of a transaction only moves along the chain.
C10_ChainOnly ==
    [][\A t \in Stored :
         txs'[t].status # txs[t].status
           => <<txs[t].status, txs'[t].status>> \in ChainMoves]_vars

\* C11: on a stored transaction, SellerConfirm by anyone but its seller,
\* BuyerConfirmPayment by anyone but its buyer, and Complete or Cancel by a
\* user who is neither are answered 403 and write nothing: the transaction
\* and the product stay as they are.
C11_WrongCallerForbidden ==
    [][\A r \in Reqs, u \in Users, t \in TxIds :
         LET stranger == u \notin {txs[t].buyer_id, txs[t].seller_id}
             refused(op) == /\ out'.op = op /\ out'.user = u /\ out'.tid = t
                            /\ out'.res.code = 403
                            /\ txs' = txs
                            /\ products' = products
                            /\ req' = req
         IN  TxExists(t) =>
               /\ \A pm \in PayMethods :
                    (SellerConfirmFind(r, u, t, pm) /\ u # txs[t].seller_id)
                      => refused("seller_confirm")
               /\ (BuyerConfirmFind(r, u, t) /\ u # txs[t].buyer_id)
                    => refused("buyer_confirm_payment")
               /\ (CompleteFind(r, u, t) /\ stranger) => refused("complete")
               /\ (CancelFind(r, u, t) /\ stranger) => refused("cancel")]_vars

\* The buyer of a stored transaction was just refused SellerConfirm.
C11_Witness ==
    /\ out.res.code = 403
    /\ out.tid \in Stored
    /\ out.op = "seller_confirm"
    /\ out.user = txs[out.tid].buyer_id

\* The timeline a is the beginning of the timeline b.
IsPrefix(a, b) ==
    /\ Len(a) <= Len(b)
    /\ SubSeq(b, 1, Len(a)) = a

\* C12: no step removes, reorders or modifies an entry of a timeline (the
\* old timeline is a prefix of the new one), and the write of a successful
\* SellerConfirm, BuyerConfirmPayment, Complete or Cancel appends exactly
\* one entry, by the caller, to its transaction and none to another; the
\* second write of Complete and Cancel leaves the ledger alone.
C12_TimelineAppendOnly ==
    [][/\ Len(txs') >= Len(txs)
       /\ \A t \in Stored : IsPrefix(txs[t].timeline, txs'[t].timeline)
       /\ \A r \in Reqs :
            /\ (\/ SellerConfirmUpdate(r) \/ BuyerConfirmUpdate(r)
                \/ CompleteUpdate(r) \/ CancelUpdate(r))
                 => \A t \in Stored :
                      LET old == txs[t].timeline
                          new == txs'[t].timeline
                      IN  IF t = req[r].tid
                          THEN /\ Len(new) = Len(old) + 1
                               /\ new[Len(new)].by_user_id = req[r].user
                               /\ new[Len(new)].status = txs'[t].status
                          ELSE new = old
            /\ (CompleteSold(r) \/ CancelUnreserve(r)) => txs' = txs]_vars

\* Complete was just answered 200 on a transaction whose timeline holds the
\* reservation, both confirmations and the completion, in this order.
C12_Witness ==
    /\ out.op = "complete"
    /\ out.res.code = 200
    /\ Len(txs[out.tid].timeline) = 4
    /\ [i \in 1 .. 4 |-> txs[out.tid].timeline[i].status]
         = <<PENDING, CONFIRMED, PAYMENT_CONFIRMED, COMPLETED>>

\* C13: in every reachable state the timestamps of each timeline do not
\* decrease from one entry to the next.
C13_TimestampsOrdered ==
    \A t \in Stored :
      \A i \in 1 .. Len(txs[t].timeline) - 1 :
        txs[t].timeline[i].timestamp <= txs[t].timeline[i + 1].timestamp

\* C14: in every reachable state no two transactions have the same code.
C14_CodesUnique ==
    \A s, t \in Stored :
      txs[s].transaction_code = txs[t].transaction_code => s = t

\* A reservation that generated the code of a stored transaction, after
\* the lookup of another had found it free, was just refused by the insert.
C14_Witness ==
    /\ out.op = "reserve"
    /\ out.res.code = 500
    /\ \E t \in Stored : txs[t].transaction_code = out.code

\* The statuses of the entries of the timeline of transaction t, in order.
PathOf(t) ==
    [i \in 1 .. Len(txs[t].timeline) |-> txs[t].timeline[i].status]

\* C15, no step of the chain is refused: one request at a time, Reserve of
\* the available product by another user than its owner, then SellerConfirm
\* by the seller, BuyerConfirmPayment by the buyer and Complete by either
\* party, each on the transaction as the step before left it, pass the
\* checks of their handlers.
C15_ChainPasses ==
    \A r \in Reqs, u \in Users :
      /\ \A p \in Products :
           (/\ ReserveFind(r, u, p)
            /\ txs = <<>>
            /\ products[p].estado = AVAILABLE
            /\ u # products[p].user_id) => req'[r].pc = "r_code"
      /\ \A t \in Stored :
           /\ \A pm \in PayMethods :
                (/\ SellerConfirmFind(r, u, t, pm)
                 /\ PathOf(t) = <<PENDING>>
                 /\ u = txs[t].seller_id) => req'[r].pc = "sc_update"
           /\ (/\ BuyerConfirmFind(r, u, t)
               /\ PathOf(t) = <<PENDING, CONFIRMED>>
               /\ u = txs[t].buyer_id) => req'[r].pc = "bc_update"
           /\ (/\ CompleteFind(r, u, t)
               /\ PathOf(t) = <<PENDING, CONFIRMED, PAYMENT_CONFIRMED>>
               /\ IsParty(txs[t], u)) => req'[r].pc = "c_update"

\* C15, what each step of the chain yields once it is answered.
C15_ChainYields ==
    LET t == out.tid
        T == txs[t]
        P == products[out.pid]
    IN  /\ (out.op = "reserve" /\ out.code # 0) =>
             /\ out.res.code = 201
             /\ T.status = PENDING /\ PathOf(t) = <<PENDING>>
             /\ T.buyer_id = out.user /\ T.seller_id = P.user_id
             /\ T.buyer_id # T.seller_id
             /\ ~T.seller_confirmed /\ ~T.buyer_paid /\ T.completed_at = 0
             /\ P.estado = RESERVED /\ P.reserved_by = out.user
             /\ P.transaction_id = t /\ P.stock = 1
        /\ (out.op = "seller_confirm" /\ out.rd # ""
               /\ PathOf(t) = <<PENDING, CONFIRMED>>) =>
             /\ out.res.code = 200
             /\ T.status = CONFIRMED /\ T.seller_confirmed
             /\ T.payment_method = out.pm /\ ~T.buyer_paid
             /\ P.estado = RESERVED
        /\ (out.op = "buyer_confirm_payment" /\ out.rd # ""
               /\ PathOf(t) = <<PENDING, CONFIRMED, PAYMENT_CONFIRMED>>) =>
             /\ out.res.code = 200
             /\ T.status = PAYMENT_CONFIRMED /\ T.buyer_paid /\ T.seller_confirmed
             /\ T.payment_method \in PayMethods
             /\ P.estado = RESERVED
        /\ (out.op = "complete" /\ out.rd # ""
               /\ PathOf(t) = <<PENDING, CONFIRMED, PAYMENT_CONFIRMED, COMPLETED>>) =>
             /\ out.res.code = 200
             /\ T.status = COMPLETED /\ T.completed_at # 0
             /\ P.estado = SOLD /\ P.stock = 0 /\ P.transaction_id = t

\* C15: run one request at a time from the available product, the chain
\* Reserve, SellerConfirm, BuyerConfirmPayment, Complete succeeds at every
\* step and yields, in order, the pending transaction and the reserved
\* product, the seller's confirmation with the payment method, the buyer's
\* confirmation, and the completed transaction with the product sold.
C15_HappyPath ==
    [][C15_ChainPasses]_vars /\ []C15_ChainYields

\* The buyer just completed the transaction at the end of the chain.
C15_Witness ==
    /\ out.op = "complete"
    /\ out.res.code = 200
    /\ out.user = txs[out.tid].buyer_id
    /\ PathOf(out.tid) = <<PENDING, CONFIRMED, PAYMENT_CONFIRMED, COMPLETED>>
    /\ products[out.pid].estado = SOLD

\* C16: completed_at is absent until the transaction is completed, and
\* once set no step changes it.
C16_CompletedAtOnce ==
    [][\A t \in Stored :
         /\ (txs[t].completed_at = 0 /\ txs'[t].completed_at # 0)
              => txs'[t].status = COMPLETED
         /\ txs[t].completed_at # 0
              => txs'[t].completed_at = txs[t].completed_at]_vars

\* C17, the invariant: the seller of a stored transaction is not its buyer.
C17_SellerIsNotBuyer ==
    \A t \in Stored : txs[t].seller_id # txs[t].buyer_id

\* C17, the check: a reservation by the owner of the product is answered
\* 400 in its first step (as a self-purchase when the product is available),
\* goes no further and writes nothing.
C17_OwnerRefused ==
    \A r \in Reqs, p \in Products :
      ReserveFind(r, products[p].user_id, p) =>
        /\ out'.op = "reserve" /\ out'.user = products[p].user_id /\ out'.pid = p
        /\ out'.res.code = 400
        /\ products[p].estado = AVAILABLE
             => out'.res = Resp(400, "No puedes comprar tu propio producto")
        /\ req' = req
        /\ txs' = txs
        /\ products' = products

\* C17: every stored transaction has a seller different from its buyer, and
\* a reservation by the product's owner fails, creates no transaction and
\* leaves the product as it is.
C17_NoSelfPurchase ==
    []C17_SellerIsNotBuyer /\ [][C17_OwnerRefused]_vars

\* The owner was just refused the reservation of their available product,
\* after another user's transaction on it was cancelled.
C17_Witness ==
    /\ out.op = "reserve"
    /\ out.res = Resp(400, "No puedes comprar tu propio producto")
    /\ out.user = products[out.pid].user_id
    /\ Len(txs) = 1
    /\ txs[1].status = CANCELLED

\* C18: the write of an AddNote by a party appends exactly one entry to the
\* timeline of its transaction, leaves its status, confirmations and payment
\* method and the product as they are, and labels the entry with the status
\* the transaction has at that moment.
C18_NoteLabelCurrent ==
    [][\A r \in Reqs :
         AddNoteUpdate(r) =>
           LET old == txs[req[r].tid]
               new == txs'[req[r].tid]
           IN  /\ IsParty(old, req[r].user)
               /\ Len(new.timeline) = Len(old.timeline) + 1
               /\ new = [old EXCEPT !.timeline = new.timeline]
               /\ products' = products
               /\ new.timeline[Len(new.timeline)].status = old.status]_vars

\* C19: AddNote answers 400 (validation) to an empty note, 404 (not found)
\* to a note for a transaction that is not stored, and 403 (forbidden) to a
\* note by a user who is no party of the transaction; none of the three
\* changes a transaction.
C19_NoteErrorKinds ==
    [][\A r \in Reqs, u \in Users, t \in TxIds, note \in Notes :
         AddNoteFind(r, u, t, note) =>
           LET refused(code) == /\ out'.op = "add_note"
                                /\ out'.res.code = code
                                /\ txs' = txs
           IN  /\ note = "" => refused(400)
               /\ (note # "" /\ ~TxExists(t)) => refused(404)
               /\ (note # "" /\ TxExists(t)
                      /\ u \notin {txs[t].buyer_id, txs[t].seller_id})
                    => refused(403)]_vars

\* C20, the copy: the reservation keeps the fields of the product as its
\* first read found them, and inserts them as the snapshot.
C20_SnapshotTaken ==
    \A r \in Reqs :
      /\ \A u \in Users, p \in Products :
           (ReserveFind(r, u, p) /\ req'[r].pc = "r_code")
             => req'[r].rd = products[p].nombre
      /\ \A c \in Codes : ReserveCode(r, c) => req'[r].rd = req[r].rd
      /\ (ReserveInsert(r) /\ Len(txs') = Len(txs) + 1)
           => txs'[Len(txs')].product_snapshot = req[r].rd

\* C20, the frame: no step changes the snapshot of a stored transaction.
C20_SnapshotKept ==
    \A t \in Stored : txs'[t].product_snapshot = txs[t].product_snapshot

\* C20: the snapshot of a transaction is the product as read at reservation
\* time, and no later operation on the transaction and no edit of the
\* listing changes it.
C20_SnapshotFrozen ==
    [][C20_SnapshotTaken /\ C20_SnapshotKept]_vars

\* The listing was renamed after the reservation, the seller confirmed, and
\* the snapshot still holds the name the reservation read.
C20_Witness ==
    \E t \in Stored :
      /\ txs[t].status = CONFIRMED
      /\ Len(txs[t].timeline) = 2
      /\ txs[t].product_snapshot = "remera"
      /\ products[txs[t].product_id].nombre = "campera"

\* C21: in every reachable state the stock of a product is 0 if it is sold
\* and 1 otherwise.
C21_StockFollowsStatus ==
    \A p \in Products :
      products[p].stock = IF products[p].estado = SOLD THEN 0 ELSE 1

\* The transactions whose reservation was answered with an error after the
\* insert, by the last answer of some thread.
Orphans ==
    {sent[r].tid : r \in {q \in Reqs : /\ sent[q].op = "reserve"
                                        /\ sent[q].tid # 0
                                        /\ sent[q].res.code # 201}}

\* C22: a reservation that inserted its transaction and then lost the
\* product is answered with an error, and its transaction stays pending.
C22_OrphanStaysPending ==
    /\ \A r \in Reqs :
         (sent[r].op = "reserve" /\ sent[r].tid # 0 /\ sent[r].res.code # 201)
           => sent[r].res.code = 400
    /\ \A t \in Orphans : txs[t].status = PENDING

\* What the answered request q, run alone, makes of its transaction tx.
TxEffect(q, tx) ==
    CASE q.op = "seller_confirm" -> SellerConfirmTx(tx, q.user, q.pm, q.ts)
      [] q.op = "buyer_confirm_payment" -> BuyerConfirmTx(tx, q.user, q.ts)
      [] q.op = "complete" ->
           UpdateStatus(tx, COMPLETED, "Transaccion completada exitosamente",
                        q.user, q.ts)
      [] q.op = "cancel" ->
           UpdateStatus(tx, CANCELLED, "Transaccion cancelada", q.user, q.ts)
      [] q.op = "add_note" -> AddNoteTx(tx, tx.status, q.user, q.ts)
      [] OTHER -> tx

\* What the answered request q, run alone, makes of the product prod.
ProdEffect(q, prod) ==
    CASE q.op = "complete" -> MarkAsSold(prod, q.tid)
      [] q.op = "cancel" -> Unreserve(prod)
      [] OTHER -> prod

\* Both threads have answered a request with 200, on different transactions.
PairDone ==
    /\ \A r \in Reqs : Idle(r) /\ sent[r].res.code = 200
    /\ sent[1].tid # sent[2].tid

\* C23: two requests on different transactions, overlapping in any way,
\* leave the ledger and the registry as the two run one after the other
\* would, in either order.
C23_DifferentTxCommute ==
    PairDone =>
      LET a == sent[1]
          b == sent[2]
      IN  /\ txs = [TwoTxs EXCEPT ![a.tid] = TxEffect(a, @),
                                  ![b.tid] = TxEffect(b, @)]
          /\ \A p \in Products :
               /\ products[p] = ProdEffect(b, ProdEffect(a, TwoTxsProducts[p]))
               /\ products[p] = ProdEffect(a, ProdEffect(b, TwoTxsProducts[p]))

\* Both threads have answered a request with 200, on the same transaction.
SameDone ==
    /\ \A r \in Reqs : Idle(r) /\ sent[r].res.code = 200
    /\ sent[1].tid = sent[2].tid

\* The last entry of the timeline of transaction t.
LastEntry(t) == txs[t].timeline[Len(txs[t].timeline)]

\* C24: after two overlapping requests by parties of one transaction, the
\* timeline holds the entry of each (two entries more than before, one with
\* the timestamp and the user of each request), and the status is the label
\* of the last entry, the one of the update applied last.
C24_LastWriteWins ==
    SameDone =>
      LET t == sent[1].tid
          before == Len(TwoTxs[t].timeline)
          added == {txs[t].timeline[i] : i \in before + 1 .. Len(txs[t].timeline)}
      IN  /\ Len(txs[t].timeline) = before + 2
          /\ \A r \in Reqs :
               \E e \in added : /\ e.timestamp = sent[r].ts
                                /\ e.by_user_id = sent[r].user
          /\ txs[t].status = LastEntry(t).status

\* C25, on the function: whatever the product, one release gives status
\* available with no buyer and no transaction and leaves the other fields,
\* and a second release changes nothing.
C25_ReleaseOnce ==
    \A p \in Products :
      LET once == Unreserve(products[p])
      IN  /\ once.estado = AVAILABLE
          /\ once.reserved_by = None
          /\ once.transaction_id = 0
          /\ once = [products[p] EXCEPT !.estado = AVAILABLE, !.reserved_by = None,
                                        !.transaction_id = 0]
          /\ Unreserve(once) = once

\* C25, on the call: the release of cancel_transaction, on a product in
\* any state, leaves it available with no buyer and no transaction, its
\* stock as it was, and a further release would change nothing.
C25_ReleaseCall ==
    \A r \in Reqs :
      CancelUnreserve(r) =>
        LET p == req[r].pid
        IN  /\ products'[p].estado = AVAILABLE
            /\ products'[p].reserved_by = None
            /\ products'[p].transaction_id = 0
            /\ products'[p].stock = products[p].stock
            /\ Unreserve(products'[p]) = products'[p]
            /\ txs' = txs

\* C25: release is unconditional and idempotent.
C25_ReleaseIdempotent ==
    []C25_ReleaseOnce /\ [][C25_ReleaseCall]_vars

\* The sold product was just released a second time, by the second
\* cancellation of its transaction.
C25_Witness ==
    /\ out.op = "cancel"
    /\ out.res.code = 200
    /\ out.rd = CANCELLED
    /\ products[out.pid].estado = AVAILABLE
    /\ products[out.pid].stock = 0
    /\ products[out.pid].reserved_by = None
    /\ products[out.pid].transaction_id = 0

\* Every code of the code space is the code of a stored transaction.
AllCodesUsed == {txs[t].transaction_code : t \in Stored} = Codes

\* Thread r is in Transaction.create: in the loop or before the insert.
Creating(r) == req[r].pc \in {"r_code", "r_insert"}

\* The reservation of thread r has inserted its transaction.
Inserted(r) == req[r].tid # 0 \/ sent[r].tid # 0

\* C26: under fairness of the random choice, a reservation in the loop of
\* Transaction.create ends up with its transaction inserted, unless every
\* code is used.
C26_CreateInserts ==
    \A r \in Reqs :
      (req[r].pc = "r_code") ~> (Inserted(r) \/ AllCodesUsed)

\* The loop and the insert, step by step: with every code used a
\* reservation in the loop stays there and is not answered; the insert
\* stores the transaction under the code of the loop unless a transaction
\* took that code since the lookup, and then answers 500 and stores nothing.
LoopSteps ==
    \A r \in Reqs :
      /\ (req[r].pc = "r_code" /\ AllCodesUsed)
           => /\ req'[r] = req[r]
              /\ sent'[r] = sent[r]
              /\ txs' = txs
      /\ ReserveInsert(r) =>
           IF \E t \in Stored : txs[t].transaction_code = req[r].code
           THEN /\ txs' = txs
                /\ sent'[r].res.code = 500
           ELSE /\ Len(txs') = Len(txs) + 1
                /\ txs'[Len(txs')].transaction_code = req[r].code
                /\ txs'[Len(txs')].buyer_id = req[r].user
                /\ req'[r].tid = Len(txs')

\* What holds of Transaction.create: under fairness of the random choice a
\* reservation leaves it (transaction inserted, or insert refused for a
\* code taken since the lookup) unless every code gets used; with every
\* code used the loop never exits and nothing is answered.
CreateTerminates ==
    /\ \A r \in Reqs : Creating(r) ~> (~Creating(r) \/ AllCodesUsed)
    /\ [][LoopSteps]_vars

\* One reservation took the last unused code and was answered 201; the
\* other is in the loop with every code used.
LastCodeTaken ==
    /\ AllCodesUsed
    /\ \E r, q \in Reqs :
          /\ req[r].pc = "r_code"
          /\ sent[q].res.code = 201

\* C27: in every reachable state a sold product names a stored transaction
\* of that product with both confirmations.
C27_SoldOnlyConfirmed ==
    \A p \in Products :
      products[p].estado = SOLD =>
        /\ products[p].transaction_id \in Stored
        /\ txs[products[p].transaction_id].product_id = p
        /\ txs[products[p].transaction_id].seller_confirmed
        /\ txs[products[p].transaction_id].buyer_paid

\* The product was just sold by a Complete of the buyer that ran beside
\* another request on the same transaction.
C27_Witness ==
    /\ out.op = "complete"
    /\ out.res.code = 200
    /\ out.user = txs[out.tid].buyer_id
    /\ products[out.pid].estado = SOLD
    /\ products[out.pid].transaction_id = out.tid
    /\ \E r \in Reqs : req[r].tid = out.tid /\ req[r].op = "cancel"

\* C28: when Complete on a transaction marks a product sold, the product
\* is, right before that write, reserved under that transaction by its
\* buyer.
C28_SoldToHolder ==
    [][\A r \in Reqs :
         CompleteSold(r) =>
           /\ products[req[r].pid].estado = RESERVED
           /\ products[req[r].pid].transaction_id = req[r].tid
           /\ products[req[r].pid].reserved_by = txs[req[r].tid].buyer_id]_vars

\* C29: the release of a Cancel on a transaction that is not the one the
\* product names leaves the status, the buyer and the transaction of the
\* product as they are.
C29_CancelOnlyOwnHold ==
    [][\A r \in Reqs :
         (CancelUnreserve(r) /\ products[req[r].pid].transaction_id # req[r].tid)
           => /\ products'[req[r].pid].estado = products[req[r].pid].estado
              /\ products'[req[r].pid].reserved_by = products[req[r].pid].reserved_by
              /\ products'[req[r].pid].transaction_id
                   = products[req[r].pid].transaction_id]_vars

\* C30: in every reachable state a reserved product names a stored
\* transaction of that product, and its buyer is the one of the product.
C30_ReservedMatchesTx ==
    \A p \in Products :
      products[p].estado = RESERVED =>
        /\ products[p].transaction_id \in Stored
        /\ txs[products[p].transaction_id].product_id = p
        /\ txs[products[p].transaction_id].buyer_id = products[p].reserved_by

\* The product is reserved under the second transaction, by another buyer
\* than the one of the first, which was cancelled.
C30_Witness ==
    \E p \in Products :
      /\ products[p].estado = RESERVED
      /\ products[p].transaction_id = 2
      /\ txs[1].status = CANCELLED
      /\ txs[1].buyer_id # products[p].reserved_by

\* C31: once seller_confirmed (buyer_paid) of a transaction is true, no
\* step sets it back to false.
C31_FlagsMonotone ==
    [][\A t \in Stored :
         /\ txs[t].seller_confirmed => txs'[t].seller_confirmed
         /\ txs[t].buyer_paid => txs'[t].buyer_paid]_vars

\* A transaction with both confirmations was cancelled after a further
\* request on it (a repeated confirmation, a note or a completion), and
\* still has both.
C31_Witness ==
    \E t \in Stored :
      /\ txs[t].status = CANCELLED
      /\ txs[t].seller_confirmed
      /\ txs[t].buyer_paid
      /\ Len(txs[t].timeline) = 5

====
